---- MODULE Spec2Model ----
(***************************************************************************)
(* Restaurant recommendation service: the gunicorn master's cache          *)
(* pre-warming hook (server/gunicorn_conf.py), the worker's import-time    *)
(* Redis connection and lifespan-managed model (server/app/main.py), and   *)
(* the /recommend/{user_id} handler: cache-aside feature fetch, nearest-   *)
(* neighbour query, H3-restricted restaurant query, join, filter, sort and *)
(* truncate.                                                               *)
(*                                                                         *)
(* Scaling.  The users table has 1000 feature columns, the handler asks    *)
(* for 100 neighbours and the pre-warmer fetches 5000 rows at a time; the  *)
(* model keeps the structure and scales the three numbers (Dim,            *)
(* NNeighbors, FetchManySize).  Coordinates are integers in millidegrees   *)
(* and every in-range point lies on the meridian longitude = 0, where the  *)
(* haversine distance is (earth radius) * |delta latitude|.  The H3 grid   *)
(* is modelled along that meridian: a resolution-9 cell spans CellSpan     *)
(* millidegrees and grid_disk(c, k) is the cells within k steps of c.      *)
(***************************************************************************)
EXTENDS Integers, Sequences, FiniteSets, TLC

VARIABLES
    redisUp,      \* the Redis server answers
    dbUp,         \* the PostgreSQL server answers
    cache,        \* Redis db 0: key -> [val, ex]
    restaurants,  \* the restaurants table, rows in physical order
    artifact,     \* model.pkl: query vector -> all fitted slots, nearest first
    master,       \* the gunicorn master running on_starting
    lifecycle,    \* per worker slot: where its process is in its life
    appModel,     \* per worker: app.state.model
    redisClient,  \* per worker: module-level redis_client
    req           \* per worker: the request the event loop is running

vars == <<redisUp, dbUp, cache, restaurants, artifact, master, lifecycle,
          appModel, redisClient, req>>

----------------------------------------------------------------------------
(* Bounds *)

\* feature columns of a users row (range(1000) in database.py)
Dim == 2
\* n_neighbors_to_query (100 in main.py)
NNeighbors == 3
\* rows per fetchmany (5000 in gunicorn_conf.py)
FetchManySize == 1

(* Program constants *)

TTL == 3600
H3Resolution == 9
RingK == 4
DefaultSize == 20
DefaultMaxDis == 5000
LatLimit == 90000
LonLimit == 180000
\* metres per degree of latitude on the haversine package's sphere
\* (radius 6371.0088 km), so EarthMetersPerDegree / 1000 per millidegree
EarthMetersPerDegree == 111195
\* millidegrees of latitude spanned by one resolution-9 cell
CellSpan == 3

Workers == {"w1", "w2"}
StoredUsers == <<"u1", "u2">>
UnknownUser == "u9"
UserIds == {StoredUsers[i] : i \in 1..Len(StoredUsers)} \cup {UnknownUser}

----------------------------------------------------------------------------
(* Small helpers *)

Min(a, b) == IF a < b THEN a ELSE b
Abs(a) == IF a < 0 THEN 0 - a ELSE a
SetMax(S) == CHOOSE x \in S : \A y \in S : y <= x
\* optional values: <<>> is None / NULL, <<v>> is v
None == <<>>
Some(v) == <<v>>

\* Python round(n / d) for n >= 0, d > 0: ties go to the even integer
Round(n, d) ==
    LET q == n \div d
        r == n % d
    IN  IF 2 * r < d THEN q
        ELSE IF 2 * r > d THEN q + 1
        ELSE IF q % 2 = 0 THEN q ELSE q + 1

----------------------------------------------------------------------------
(* The users table *)

FeatureRow(u) ==
    IF u = "u1" THEN [i \in 1..Dim |-> i] ELSE [i \in 1..Dim |-> Dim + 1 - i]

\* select(feature_0 .. feature_999).where(user_id == u).first()
\* (None when the user has no row)
SelectFeatures(u) ==
    IF \E i \in 1..Len(StoredUsers) : StoredUsers[i] = u
    THEN FeatureRow(u) ELSE None

NotUserData_never(user_data) == FALSE

\* "if not user_data" (main.py 106)
NotUserData(user_data) == user_data = None

\* np.array([user_data]).reshape(1, -1): a 1 x Dim array
Reshape1(row) == <<row>>

----------------------------------------------------------------------------
(* pickle of a 2-D array: shape and flat data, and back *)

NilBytes == [kind |-> "nil", shape |-> <<0, 0>>, data |-> <<>>]
EmptyBytes == [kind |-> "empty", shape |-> <<0, 0>>, data |-> <<>>]
GarbageBytes == [kind |-> "garbage", shape |-> <<0, 0>>, data |-> <<>>]

pickle_dumps(arr) ==
    LET rows == Len(arr)
        cols == IF rows = 0 THEN 0 ELSE Len(arr[1])
    IN  [kind |-> "ndarray", shape |-> <<rows, cols>>,
         data |-> [k \in 1..(rows * cols) |->
                      arr[((k - 1) \div cols) + 1][((k - 1) % cols) + 1]]]

Unpickles(b) == b.kind = "ndarray"

pickle_loads_reversed(b) ==
    [r \in 1..b.shape[1] |->
        [c \in 1..b.shape[2] |-> b.data[(r - 1) * b.shape[2] + (b.shape[2] + 1 - c)]]]

pickle_loads(b) ==
    [r \in 1..b.shape[1] |->
        [c \in 1..b.shape[2] |-> b.data[(r - 1) * b.shape[2] + c]]]

\* truthiness of what redis_client.get returned: None and b"" are falsy
Truthy(b) == b.kind \notin {"nil", "empty"}

NoEntry == [val |-> NilBytes, ex |-> 0]

----------------------------------------------------------------------------
(* Spatial index and displacement *)

ValidCoordinate(lat, lon) ==
    /\ Abs(lat) <= LatLimit
    /\ Abs(lon) <= LonLimit

latlng_to_cell(lat, lon, res) == lat \div CellSpan

grid_disk(cell, k) == (cell - k)..(cell + k)

\* haversine(user_coords, restaurant_coords, unit=METERS), then round()
Displacement(lat1, lat2) == Round(EarthMetersPerDegree * Abs(lat1 - lat2), 1000)

----------------------------------------------------------------------------
(* Similarity search: the loaded NearestNeighbors object *)

\* kneighbors raises ValueError for a query the fitted data does not match
\* (wrong shape) and for n_neighbors above the number of fitted samples
KneighborsRaises(features, n) ==
    \/ Len(features) # 1
    \/ features[1] \notin DOMAIN artifact
    \/ n > Len(artifact[features[1]])

\* distances[0], indices[0] zipped: <<index, distance>>, nearest first
Kneighbors(features, n) == SubSeq(artifact[features[1]], 1, n)

----------------------------------------------------------------------------
(* Candidate store *)

IndexList(neighbors) == [i \in 1..Len(neighbors) |-> neighbors[i][1]]
SeqRange(s) == {s[i] : i \in 1..Len(s)}

\* select(restaurants_table).where(index.in_(...), h3_index.in_(...))
SelectRestaurants_anyCell(model_indices_list, search_area) ==
    SelectSeq(restaurants,
              LAMBDA row : row.index \in SeqRange(model_indices_list))

SelectRestaurants(model_indices_list, search_area) ==
    SelectSeq(restaurants,
              LAMBDA row : /\ row.index \in SeqRange(model_indices_list)
                           /\ row.h3_index \in search_area)

\* {r['index']: r for r in restaurant_results}.get(model_index):
\* a later row with the same index replaces an earlier one
MapGet(rows, model_index) ==
    LET hits == {j \in 1..Len(rows) : rows[j].index = model_index}
    IN  IF hits = {} THEN None ELSE Some(rows[SetMax(hits)])

----------------------------------------------------------------------------
(* Ranking and pagination *)

\* the loop over enumerate(model_indices_list), main.py 142-161
RECURSIVE BuildResults(_, _, _, _)
BuildResults(neighbors, rows, lat, i) ==
    IF i > Len(neighbors) THEN <<>>
    ELSE LET hit == MapGet(rows, neighbors[i][1])
             rest == BuildResults(neighbors, rows, lat, i + 1)
         IN  IF hit = None THEN rest
             ELSE IF hit[1].latitude = None \/ hit[1].longitude = None THEN rest
             ELSE <<[id |-> hit[1].restaurant_id,
                     difference |-> neighbors[i][2],
                     displacement |-> Displacement(lat, hit[1].latitude[1])]>>
                  \o rest

FilterByDistance_none(results, max_dis) == results

FilterByDistance(results, max_dis) ==
    SelectSeq(results, LAMBDA r : r.displacement <= max_dis)

SortKey(r, sort_dis) == IF sort_dis = 1 THEN r.displacement ELSE r.difference

\* sorted(..., key=...): stable, so an element goes after every element
\* already placed whose key is not greater
InsertByKey(sorted, r, sort_dis) ==
    LET before == {j \in 1..Len(sorted) :
                      SortKey(sorted[j], sort_dis) <= SortKey(r, sort_dis)}
        n == IF before = {} THEN 0 ELSE SetMax(before)
    IN  SubSeq(sorted, 1, n) \o <<r>> \o SubSeq(sorted, n + 1, Len(sorted))

RECURSIVE SortedFrom(_, _, _, _)
SortedFrom(results, sort_dis, i, acc) ==
    IF i > Len(results) THEN acc
    ELSE SortedFrom(results, sort_dis, i + 1, InsertByKey(acc, results[i], sort_dis))

Sorted_bySimilarityOnly(results, sort_dis) == SortedFrom(results, 0, 1, <<>>)

Sorted(results, sort_dis) == SortedFrom(results, sort_dis, 1, <<>>)

Truncate(results, size) == SubSeq(results, 1, Min(size, Len(results)))

\* main.py 163-171
Rank(results, size, max_dis, sort_dis) ==
    Truncate(Sorted(FilterByDistance(results, max_dis), sort_dis), size)

\* main.py 116-171 once the neighbours and the caller's cell are known
Recommendations(neighbors, cell, inp) ==
    LET model_indices_list == IndexList(neighbors)
        search_area == grid_disk(cell, RingK)
        rows == SelectRestaurants(model_indices_list, search_area)
    IN  IF Len(model_indices_list) = 0 \/ search_area = {} \/ Len(rows) = 0
        THEN <<>>
        ELSE Rank(BuildResults(neighbors, rows, inp.latitude, 1),
                  inp.size, inp.max_dis, inp.sort_dis)

----------------------------------------------------------------------------
(* Data the serving specification runs on *)

Restaurant(id, index, lat) ==
    [restaurant_id |-> id, index |-> index, latitude |-> Some(lat),
     longitude |-> Some(0), h3_index |-> latlng_to_cell(lat, 0, H3Resolution)]

\* r0 and r1 near the origin, r2 within 5000 m but outside the ring of the
\* origin's cell, r3 inside the ring and just over 1000 m away
StandardRestaurants ==
    <<Restaurant("r0", 0, 1), Restaurant("r1", 1, 4),
      Restaurant("r2", 2, 20), Restaurant("r3", 3, 9)>>

\* the fitted slots 0 .. NNeighbors + 1; the last ones have no restaurant row
FitCount == NNeighbors + 2

StandardArtifact ==
    [v \in {FeatureRow(StoredUsers[i]) : i \in 1..Len(StoredUsers)} |->
        IF v = FeatureRow("u1")
        THEN [i \in 1..FitCount |->
                 <<IF i = 1 THEN 1 ELSE IF i = 2 THEN 0 ELSE i - 1, (i + 1) \div 2>>]
        ELSE [i \in 1..FitCount |-> <<FitCount - i, i>>]]

Input(u, lat, lon, size, max_dis, sort_dis) ==
    [user_id |-> u, latitude |-> lat, longitude |-> lon, size |-> size,
     max_dis |-> max_dis, sort_dis |-> sort_dis]

NoInput == Input("", 0, 0, 0, 0, 0)

\* the requests the clients send
Requests ==
    {Input("u1", 0, 0, DefaultSize, DefaultMaxDis, 0),
     Input("u2", 0, 0, 1, 1000, 1),
     Input(UnknownUser, 0, 0, DefaultSize, DefaultMaxDis, 0),
     Input("u1", LatLimit + 1000, 0, DefaultSize, DefaultMaxDis, 0),
     Input("u1", 0, 0, 0, DefaultMaxDis, 0)}

----------------------------------------------------------------------------
(* State *)

IdleReq ==
    [pc |-> "idle", inp |-> NoInput, life |-> "notstarted", cached |-> NilBytes,
     features |-> <<>>, status |-> 0, resp |-> <<>>, wrote |-> NoEntry,
     log |-> {}]

InitMaster == [pc |-> "ping", cursor |-> 0, outcome |-> "running"]

\* gunicorn forks the worker slots its --workers setting names
Forked(slots) == [w \in Workers |-> IF w \in slots THEN "notstarted" ELSE "absent"]

\* one worker, and every failure of the environment
Init ==
    /\ redisUp \in BOOLEAN
    /\ dbUp \in BOOLEAN
    /\ cache = [k \in UserIds |-> NoEntry]
    /\ restaurants = StandardRestaurants
    /\ artifact = StandardArtifact
    /\ master = InitMaster
    /\ lifecycle = Forked({"w1"})
    /\ appModel = [w \in Workers |-> "unset"]
    /\ redisClient = [w \in Workers |-> "unbound"]
    /\ req = [w \in Workers |-> IdleReq]

----------------------------------------------------------------------------
(* The environment: the two servers fail and recover, a cache entry        *)
(* expires, and another writer of Redis db 0 leaves a value under a key.   *)

RedisFails == redisUp /\ redisUp' = FALSE
              /\ UNCHANGED <<dbUp, cache, restaurants, artifact, master, lifecycle, appModel, redisClient, req>>

RedisRecovers == ~redisUp /\ redisUp' = TRUE
                 /\ UNCHANGED <<dbUp, cache, restaurants, artifact, master, lifecycle, appModel, redisClient, req>>

DbFails == dbUp /\ dbUp' = FALSE
           /\ UNCHANGED <<redisUp, cache, restaurants, artifact, master, lifecycle, appModel, redisClient, req>>

DbRecovers == ~dbUp /\ dbUp' = TRUE
              /\ UNCHANGED <<redisUp, cache, restaurants, artifact, master, lifecycle, appModel, redisClient, req>>

Expire(k) ==
    /\ cache[k] # NoEntry
    /\ cache' = [cache EXCEPT ![k] = NoEntry]
    /\ UNCHANGED <<redisUp, dbUp, restaurants, artifact, master, lifecycle, appModel, redisClient, req>>

ForeignWrite(k, bytes) ==
    /\ redisUp
    /\ cache' = [cache EXCEPT ![k] = [val |-> bytes, ex |-> 0]]
    /\ UNCHANGED <<redisUp, dbUp, restaurants, artifact, master, lifecycle, appModel, redisClient, req>>

----------------------------------------------------------------------------
(* gunicorn_conf.py: on_starting, run once by the master before it forks   *)

\* except redis.exceptions.ConnectionError (line 22)
PingCatches(exc) == exc = "ConnectionError"

SecondTryCatches_redisOnly(exc) == exc = "ConnectionError"

\* except Exception (line 50)
SecondTryCatches(exc) == TRUE

\* a row of select(users_table): user_id, then the feature columns
UsersRow(u) == <<u>> \o FeatureRow(u)

PipelineSets_wholeRow(batch) ==
    [k \in UserIds |->
        IF \E i \in 1..Len(batch) : batch[i][1] = k
        THEN [val |-> pickle_dumps(Reshape1(UsersRow(k))), ex |-> TTL]
        ELSE cache[k]]

\* pipe.set(user_id, pickle.dumps(np.array(user[1:]).reshape(1, -1)), ex=3600)
PipelineSets(batch) ==
    [k \in UserIds |->
        IF \E i \in 1..Len(batch) : batch[i][1] = k
        THEN [val |-> pickle_dumps(Reshape1(Tail(UsersRow(k)))), ex |-> TTL]
        ELSE cache[k]]

MasterEnds(caught, outcome) ==
    master' = [master EXCEPT !.pc = IF caught THEN "returned" ELSE "crashed",
                             !.outcome = outcome]

\* lines 17-24
MasterPing ==
    /\ master.pc = "ping"
    /\ IF redisUp
       THEN master' = [master EXCEPT !.pc = "query"]
       ELSE MasterEnds(PingCatches("ConnectionError"), "skipped")
    /\ UNCHANGED <<redisUp, dbUp, cache, restaurants, artifact, lifecycle, appModel, redisClient, req>>

\* lines 29-31: engine.connect() and connection.execute(select(users_table))
MasterQuery ==
    /\ master.pc = "query"
    /\ IF dbUp
       THEN master' = [master EXCEPT !.pc = "batch", !.cursor = 0]
       ELSE MasterEnds(SecondTryCatches("OperationalError"), "failed")
    /\ UNCHANGED <<redisUp, dbUp, cache, restaurants, artifact, lifecycle, appModel, redisClient, req>>

\* lines 34-47: one turn of the loop, fetchmany then the pipeline
MasterBatch ==
    /\ master.pc = "batch"
    /\ LET last == Min(master.cursor + FetchManySize, Len(StoredUsers))
           batch == [i \in 1..(last - master.cursor) |->
                        UsersRow(StoredUsers[master.cursor + i])]
       IN  IF Len(batch) = 0
           THEN /\ master' = [master EXCEPT !.pc = "returned", !.outcome = "loaded"]
                /\ cache' = cache
           ELSE IF redisUp
           THEN /\ cache' = PipelineSets(batch)
                /\ master' = [master EXCEPT !.cursor = last]
           ELSE /\ MasterEnds(SecondTryCatches("ConnectionError"), "failed")
                /\ cache' = cache
    /\ UNCHANGED <<redisUp, dbUp, restaurants, artifact, lifecycle, appModel, redisClient, req>>

----------------------------------------------------------------------------
(* main.py: a worker imports the module, runs the lifespan, serves *)

InFlight(w) == req[w].pc \notin {"idle", "done"}

\* lines 25-32
WorkerImport(w) ==
    /\ master.pc = "returned"
    /\ lifecycle[w] = "notstarted"
    /\ lifecycle' = [lifecycle EXCEPT ![w] = "unloaded"]
    /\ redisClient' = [redisClient EXCEPT ![w] = IF redisUp THEN "client" ELSE "none"]
    /\ UNCHANGED <<redisUp, dbUp, cache, restaurants, artifact, master, appModel, req>>

\* lines 43-50: joblib.load returns the model or raises
LifespanStartup(w) ==
    /\ lifecycle[w] = "unloaded"
    /\ ~InFlight(w)
    /\ \E loaded \in BOOLEAN :
          IF loaded
          THEN /\ appModel' = [appModel EXCEPT ![w] = "loaded"]
               /\ lifecycle' = [lifecycle EXCEPT ![w] = "ready"]
          ELSE /\ appModel' = appModel
               /\ lifecycle' = [lifecycle EXCEPT ![w] = "failed"]
    /\ UNCHANGED <<redisUp, dbUp, cache, restaurants, artifact, master, redisClient, req>>

\* lines 54-56
LifespanShutdown(w) ==
    /\ lifecycle[w] = "ready"
    /\ ~InFlight(w)
    /\ appModel' = [appModel EXCEPT ![w] = "none"]
    /\ lifecycle' = [lifecycle EXCEPT ![w] = "shutdown"]
    /\ UNCHANGED <<redisUp, dbUp, cache, restaurants, artifact, master, redisClient, req>>

----------------------------------------------------------------------------
(* main.py: get_recommendations.  The handler is a coroutine that never    *)
(* awaits, so a worker runs one request at a time; requests of different   *)
(* workers interleave at the calls to Redis and PostgreSQL.                *)

\* Query(20, gt=0), Query(5000, gt=0), Query(0, ge=0, le=1): lines 81-83
ParametersValid(inp) ==
    /\ inp.size > 0
    /\ inp.max_dis > 0
    /\ inp.sort_dis \in {0, 1}

Finish(w, status, resp, events) ==
    req' = [req EXCEPT ![w].pc = "done", ![w].status = status, ![w].resp = resp,
                       ![w].log = @ \cup events]

\* the request arrives: parameter validation, then lines 85-93
Receive(w, inp) ==
    /\ lifecycle[w] \notin {"absent", "notstarted"}
    /\ ~InFlight(w)
    /\ LET fresh == [IdleReq EXCEPT !.inp = inp, !.life = lifecycle[w]]
       IN  IF ~ParametersValid(inp)
           THEN req' = [req EXCEPT ![w] = [fresh EXCEPT !.pc = "done", !.status = 422]]
           ELSE IF appModel[w] = "unset"
           \* app.state has no attribute "model": AttributeError
           THEN req' = [req EXCEPT ![w] = [fresh EXCEPT !.pc = "done", !.status = 500]]
           ELSE IF appModel[w] = "none"
           THEN req' = [req EXCEPT ![w] = [fresh EXCEPT !.pc = "done", !.status = 503]]
           ELSE IF redisClient[w] = "client"
           THEN req' = [req EXCEPT ![w] = [fresh EXCEPT !.pc = "cache_get"]]
           ELSE req' = [req EXCEPT ![w] = [fresh EXCEPT !.pc = "users_query"]]
    /\ UNCHANGED <<redisUp, dbUp, cache, restaurants, artifact, master, lifecycle, appModel, redisClient>>

\* lines 91-98: redis_client.get, then pickle.loads on a truthy value
CacheGet(w) ==
    /\ req[w].pc = "cache_get"
    /\ LET cached_features == cache[req[w].inp.user_id].val
       IN  IF ~redisUp
           THEN Finish(w, 500, <<>>, {"cache_get_failed"})
           ELSE IF ~Truthy(cached_features)
           THEN req' = [req EXCEPT ![w].pc = "users_query",
                                   ![w].cached = cached_features,
                                   ![w].log = @ \cup {"cache_get"}]
           ELSE IF ~Unpickles(cached_features)
           THEN req' = [req EXCEPT ![w].pc = "done", ![w].status = 500,
                                   ![w].cached = cached_features,
                                   ![w].log = @ \cup {"cache_get", "unpickle_failed"}]
           ELSE req' = [req EXCEPT ![w].pc = "kneighbors",
                                   ![w].cached = cached_features,
                                   ![w].features = pickle_loads(cached_features),
                                   ![w].log = @ \cup {"cache_get", "cache_hit"}]
    /\ UNCHANGED <<redisUp, dbUp, cache, restaurants, artifact, master, lifecycle, appModel, redisClient>>

\* lines 102-109
UsersQuery(w) ==
    /\ req[w].pc = "users_query"
    /\ LET user_data == SelectFeatures(req[w].inp.user_id)
       IN  IF ~dbUp
           THEN Finish(w, 500, <<>>, {"db_failed"})
           ELSE IF NotUserData(user_data)
           THEN Finish(w, 404, <<>>, {"users_query"})
           ELSE req' = [req EXCEPT
                          ![w].pc = IF redisClient[w] = "client"
                                    THEN "cache_set" ELSE "kneighbors",
                          ![w].features = Reshape1(user_data),
                          ![w].log = @ \cup {"users_query"}]
    /\ UNCHANGED <<redisUp, dbUp, cache, restaurants, artifact, master, lifecycle, appModel, redisClient>>

\* lines 111-113
CacheSet(w) ==
    /\ req[w].pc = "cache_set"
    /\ IF ~redisUp
       THEN /\ Finish(w, 500, <<>>, {"cache_set_failed"})
            /\ cache' = cache
       ELSE LET entry == [val |-> pickle_dumps(req[w].features), ex |-> TTL]
            IN  /\ cache' = [cache EXCEPT ![req[w].inp.user_id] = entry]
                /\ req' = [req EXCEPT ![w].pc = "kneighbors", ![w].wrote = entry,
                                      ![w].log = @ \cup {"cache_set"}]
    /\ UNCHANGED <<redisUp, dbUp, restaurants, artifact, master, lifecycle, appModel, redisClient>>

\* lines 116-171.  For a coordinate outside the valid range h3 either
\* raises or returns the cell its arithmetic gives.
Recommend(w) ==
    /\ req[w].pc = "kneighbors"
    /\ LET inp == req[w].inp
           features == req[w].features
       IN  IF KneighborsRaises(features, NNeighbors)
           THEN Finish(w, 500, <<>>, {"kneighbors", "kneighbors_failed"})
           ELSE IF Len(Kneighbors(features, NNeighbors)) = 0
           THEN Finish(w, 200, <<>>, {"kneighbors"})
           ELSE IF ~dbUp
           THEN Finish(w, 500, <<>>, {"kneighbors", "db_failed"})
           ELSE \E h3_raises \in BOOLEAN :
                  /\ h3_raises => ~ValidCoordinate(inp.latitude, inp.longitude)
                  /\ IF h3_raises
                     THEN Finish(w, 500, <<>>, {"kneighbors", "h3_failed"})
                     ELSE Finish(w, 200,
                                 Recommendations(
                                     Kneighbors(features, NNeighbors),
                                     latlng_to_cell(inp.latitude, inp.longitude,
                                                    H3Resolution),
                                     inp),
                                 {"kneighbors", "restaurants_query"})
    /\ UNCHANGED <<redisUp, dbUp, cache, restaurants, artifact, master, lifecycle, appModel, redisClient>>

----------------------------------------------------------------------------

Next ==
    \/ RedisFails
    \/ RedisRecovers
    \/ DbFails
    \/ DbRecovers
    \/ \E k \in UserIds : Expire(k)
    \/ \E k \in UserIds, bytes \in {GarbageBytes, EmptyBytes} : ForeignWrite(k, bytes)
    \/ MasterPing
    \/ MasterQuery
    \/ MasterBatch
    \/ \E w \in Workers : WorkerImport(w)
    \/ \E w \in Workers : LifespanStartup(w)
    \/ \E w \in Workers : LifespanShutdown(w)
    \/ \E w \in Workers, inp \in Requests : Receive(w, inp)
    \/ \E w \in Workers : CacheGet(w)
    \/ \E w \in Workers : UsersQuery(w)
    \/ \E w \in Workers : CacheSet(w)
    \/ \E w \in Workers : Recommend(w)

Spec == Init /\ [][Next]_vars

----------------------------------------------------------------------------
(* The request pipeline over every small similarity result and restaurant  *)
(* table: one ready worker without a cache, both servers up.               *)

\* rows the restaurants table is drawn from: "a" and "c" are equally far
\* from the origin, "c" and "d" share an ordinal index and "d" lies outside
\* the ring of the origin's cell, "e" shares the index of "b" and has no
\* latitude
RowPool ==
    <<Restaurant("a", 0, 1), Restaurant("b", 1, 4), Restaurant("c", 2, 1),
      Restaurant("d", 2, 20),
      [Restaurant("e", 1, 2) EXCEPT !.latitude = None]>>

RECURSIVE SubSequence(_, _, _)
SubSequence(s, keep, i) ==
    IF i > Len(s) THEN <<>>
    ELSE (IF i \in keep THEN <<s[i]>> ELSE <<>>) \o SubSequence(s, keep, i + 1)

RestaurantTables == {SubSequence(RowPool, keep, 1) : keep \in SUBSET (1..Len(RowPool))}

\* ordinal indices a similarity result may name (one has no row whenever the
\* table drawn lacks it) and its distances
PoolIndices == {0, 1, 2}
PoolDistances == {1, 2}

NeighborLists ==
    {nb \in [1..NNeighbors -> PoolIndices \X PoolDistances] :
        \A i \in 1..(NNeighbors - 1) : nb[i][2] <= nb[i + 1][2]}

PipelineRequests ==
    {Input("u1", 0, 0, size, max_dis, sort_dis) :
        size \in {1, DefaultSize}, max_dis \in {200, DefaultMaxDis}, sort_dis \in {0, 1}}

InitPipeline ==
    /\ redisUp = TRUE
    /\ dbUp = TRUE
    /\ cache = [k \in UserIds |-> NoEntry]
    /\ restaurants \in RestaurantTables
    /\ artifact \in [{FeatureRow("u1")} -> NeighborLists]
    /\ master = [InitMaster EXCEPT !.pc = "returned", !.outcome = "skipped"]
    /\ lifecycle = [Forked({"w1"}) EXCEPT !["w1"] = "ready"]
    /\ appModel = [w \in Workers |-> IF w = "w1" THEN "loaded" ELSE "unset"]
    /\ redisClient = [w \in Workers |-> IF w = "w1" THEN "none" ELSE "unbound"]
    /\ req = [w \in Workers |-> IdleReq]

NextPipeline ==
    \/ \E w \in Workers, inp \in PipelineRequests : Receive(w, inp)
    \/ \E w \in Workers : UsersQuery(w)
    \/ \E w \in Workers : Recommend(w)

SpecPipeline == InitPipeline /\ [][NextPipeline]_vars

----------------------------------------------------------------------------
(* Vocabulary of the properties *)

IsStored(u) == \E i \in 1..Len(StoredUsers) : StoredUsers[i] = u

\* the cache entry that holds user u's vector
EntryOf(u) == [val |-> pickle_dumps(Reshape1(FeatureRow(u))), ex |-> TTL]

Lookups == {"cache_get", "users_query", "kneighbors", "restaurants_query", "cache_set"}

\* what a request returns when the vector of its user comes from the store
\* and nothing fails
ExpectedResponse(inp) ==
    Recommendations(Kneighbors(Reshape1(FeatureRow(inp.user_id)), NNeighbors),
                    latlng_to_cell(inp.latitude, inp.longitude, H3Resolution), inp)

----------------------------------------------------------------------------
\* C1: for a user of the users table, a request that finds no value under
\* the user id reads the users table and writes pickle(vector) under the user
\* id with ex = 3600; a request that finds that entry is a hit whose vector
\* is the store's vector, element for element, and it never queries the
\* users table.  Every array entry the service holds for a stored user is
\* that entry.
C1_CacheAsideRoundTrip ==
    /\ \A u \in UserIds :
          (IsStored(u) /\ cache[u].val.kind = "ndarray") => cache[u] = EntryOf(u)
    /\ \A w \in Workers :
          LET r == req[w]
              u == r.inp.user_id
          IN  IsStored(u) =>
                /\ ("cache_get" \in r.log /\ r.cached = NilBytes
                      /\ (r.pc = "kneighbors" \/ "kneighbors" \in r.log))
                      => /\ "users_query" \in r.log
                         /\ "cache_set" \in r.log
                         /\ r.wrote = EntryOf(u)
                /\ "cache_set" \in r.log => r.wrote = EntryOf(u)
                /\ r.cached = EntryOf(u).val
                      => /\ "cache_hit" \in r.log
                         /\ r.features = Reshape1(FeatureRow(u))
                         /\ Len(r.features[1]) = Dim
                         /\ "users_query" \notin r.log

\* a hit served from an entry that only a request's write-back can have
\* made (the pre-warmer wrote nothing)
C1_Witness ==
    \E w \in Workers :
        /\ req[w].pc = "done" /\ req[w].status = 200
        /\ "cache_hit" \in req[w].log
        /\ master.outcome = "skipped"
        /\ cache[req[w].inp.user_id] = EntryOf(req[w].inp.user_id)

\* C2: a request for a user id with no row in the users table and no value
\* in the cache issues no kneighbors query and no restaurants query and
\* writes nothing to the cache, and once its users query has answered it
\* has ended with 404.
C2_UnknownUserNotFound ==
    /\ cache[UnknownUser].val.kind # "ndarray"
    /\ \A w \in Workers :
          LET r == req[w]
          IN  (r.pc # "idle" /\ SelectFeatures(r.inp.user_id) = None /\ ~Truthy(r.cached))
                => /\ r.log \cap {"kneighbors", "restaurants_query", "cache_set"} = {}
                   /\ r.wrote = NoEntry
                   /\ "users_query" \in r.log => (r.pc = "done" /\ r.status = 404)

C2_Witness ==
    \E w \in Workers :
        /\ req[w].pc = "done" /\ req[w].status = 404
        /\ req[w].inp.user_id = UnknownUser
        /\ "cache_get" \in req[w].log /\ "users_query" \in req[w].log

\* C3: a valid request received in a life-cycle state other than ready ends
\* with 503 and has reached neither the cache, the store nor kneighbors; and
\* whoever has called kneighbors holds a loaded model.
C3_RefusedUnlessReady ==
    \A w \in Workers :
        LET r == req[w]
        IN  /\ (r.pc = "done" /\ r.life # "ready" /\ ParametersValid(r.inp))
                => (r.status = 503 /\ r.log \cap Lookups = {})
            /\ (InFlight(w) /\ "kneighbors" \in r.log) => appModel[w] = "loaded"

----------------------------------------------------------------------------
(* Ranking: the properties are stated on the candidates in similarity     *)
(* order, before the filter, the sort and the cut.                         *)

KeyValues(results, sort_dis) == {SortKey(results[i], sort_dis) : i \in 1..Len(results)}

IsPrefix(s, t) == Len(s) <= Len(t) /\ SubSeq(t, 1, Len(s)) = s

\* the candidates of request r, in similarity order
Candidates(r) ==
    LET neighbors == Kneighbors(r.features, NNeighbors)
        cell == latlng_to_cell(r.inp.latitude, r.inp.longitude, H3Resolution)
    IN  BuildResults(neighbors,
                     SelectRestaurants(IndexList(neighbors), grid_disk(cell, RingK)),
                     r.inp.latitude, 1)

\* C4: the restaurants list of a 200 response holds only entries with
\* displacement <= max_dis, holds at most size entries, is non-decreasing
\* in displacement when sort_dis = 1 and in difference when sort_dis = 0,
\* and the entries of equal key stand in the order the similarity result
\* gave them (they are a prefix of the equal-key candidates in that order).
C4_RankedFilteredCut ==
    \A w \in Workers :
        LET r == req[w]
            out == r.resp
            key(e) == SortKey(e, r.inp.sort_dis)
        IN  (r.pc = "done" /\ r.status = 200) =>
              /\ \A i \in 1..Len(out) : out[i].displacement <= r.inp.max_dis
              /\ Len(out) <= r.inp.size
              /\ \A i \in 1..(Len(out) - 1) : key(out[i]) <= key(out[i + 1])
              /\ \A k \in KeyValues(out, r.inp.sort_dis) :
                    IsPrefix(SelectSeq(out, LAMBDA e : key(e) = k),
                             SelectSeq(Candidates(r),
                                       LAMBDA e : /\ key(e) = k
                                                  /\ e.displacement <= r.inp.max_dis))

\* three entries sorted by displacement against the similarity order, with
\* a tie in displacement between two different restaurants
C4_Witness ==
    \E w \in Workers :
        LET r == req[w]
        IN  /\ r.pc = "done" /\ r.status = 200 /\ r.inp.sort_dis = 1
            /\ Len(r.resp) >= 3
            /\ \E i \in 1..(Len(r.resp) - 1) :
                  /\ r.resp[i].displacement = r.resp[i + 1].displacement
                  /\ r.resp[i].id # r.resp[i + 1].id
            /\ \E i \in 1..(Len(r.resp) - 1) :
                  r.resp[i].difference > r.resp[i + 1].difference

\* C5: every restaurant of a 200 response is a row of the restaurants table
\* whose ordinal index is among the indices kneighbors returned for this
\* request and whose cell is in the ring around the caller's cell; so a row
\* outside the ring is left out, and an index with no row adds no entry.  A
\* valid request that meets no failing server ends with 200.
C5_JoinOnIndexAndRing ==
    \A w \in Workers :
        LET r == req[w]
            indices == SeqRange(IndexList(Kneighbors(r.features, NNeighbors)))
            ring == grid_disk(latlng_to_cell(r.inp.latitude, r.inp.longitude,
                                             H3Resolution), RingK)
        IN  /\ (r.pc = "done" /\ r.status = 200) =>
                  /\ \A i \in 1..Len(r.resp) :
                        \E j \in 1..Len(restaurants) :
                            /\ restaurants[j].restaurant_id = r.resp[i].id
                            /\ restaurants[j].index \in indices
                            /\ restaurants[j].h3_index \in ring
                  /\ Len(r.resp) <= NNeighbors
            /\ (r.pc = "done" /\ "db_failed" \notin r.log /\ "h3_failed" \notin r.log)
                  => r.status = 200

\* a response with an entry, while the table holds a row among the K
\* nearest and within max_dis whose cell is outside the ring, and while one
\* index of the similarity result has no row at all
C5_Witness ==
    \E w \in Workers :
        LET r == req[w]
            indices == SeqRange(IndexList(Kneighbors(r.features, NNeighbors)))
            ring == grid_disk(latlng_to_cell(r.inp.latitude, r.inp.longitude,
                                             H3Resolution), RingK)
        IN  /\ r.pc = "done" /\ r.status = 200 /\ Len(r.resp) >= 1
            /\ \E j \in 1..Len(restaurants) :
                  /\ restaurants[j].index \in indices
                  /\ restaurants[j].latitude # None
                  /\ restaurants[j].h3_index \notin ring
                  /\ Displacement(r.inp.latitude, restaurants[j].latitude[1]) <= r.inp.max_dis
                  /\ \A i \in 1..Len(r.resp) : r.resp[i].id # restaurants[j].restaurant_id
            /\ \E x \in indices : \A j \in 1..Len(restaurants) : restaurants[j].index # x

----------------------------------------------------------------------------
\* C6: a request for a stored user whose cache write-back failed still ends
\* with 200 and the response the vector of the store gives.
C6_WriteFailureIgnored ==
    \A w \in Workers :
        LET r == req[w]
        IN  (r.pc = "done" /\ "cache_set_failed" \in r.log)
              => (r.status = 200 /\ r.resp = ExpectedResponse(r.inp))

\* C7: a request that got a value from the cache which does not unpickle
\* goes on as after a miss: it queries the users table, and it ends with a
\* server error only if the store failed.
C7_CorruptValueIsMiss ==
    \A w \in Workers :
        LET r == req[w]
        IN  (r.pc = "done" /\ Truthy(r.cached) /\ ~Unpickles(r.cached))
              => /\ "users_query" \in r.log \/ "db_failed" \in r.log
                 /\ r.status = 500 => "db_failed" \in r.log

\* C8: a valid request for a stored user, received by a ready worker that
\* has no Redis client or whose get failed, ends with 200 and the response
\* the vector of the store gives, unless the store itself failed.
C8_CacheOutageHidden ==
    \A w \in Workers :
        LET r == req[w]
        IN  (/\ r.pc = "done" /\ r.life = "ready"
             /\ IsStored(r.inp.user_id)
             /\ ParametersValid(r.inp)
             /\ ValidCoordinate(r.inp.latitude, r.inp.longitude)
             /\ "db_failed" \notin r.log
             /\ (redisClient[w] = "none" \/ "cache_get_failed" \in r.log))
              => (r.status = 200 /\ r.resp = ExpectedResponse(r.inp))

\* C9: on_starting never ends by raising, whichever of its calls fails; once
\* it has returned every forked worker can import the application, and only
\* then does a worker run.
C9_PrewarmNeverBlocksStart ==
    /\ master.pc # "crashed"
    /\ \A w \in Workers :
          /\ (master.pc = "returned" /\ lifecycle[w] = "notstarted")
                => ENABLED WorkerImport(w)
          /\ lifecycle[w] \notin {"absent", "notstarted"} => master.pc = "returned"

\* pre-warming failed in the middle (one batch written, the next one not),
\* the worker started, and a request for a user the pre-warmer did not reach
\* was served from the store by the miss path
C9_Witness ==
    /\ master.pc = "returned" /\ master.outcome = "failed" /\ master.cursor >= 1
    /\ \E w \in Workers :
          /\ req[w].pc = "done" /\ req[w].status = 200
          /\ "users_query" \in req[w].log
          /\ req[w].resp = ExpectedResponse(req[w].inp)

\* C10: a request with a latitude outside [-90, 90] or a longitude outside
\* [-180, 180] ends with 422 and has made no cache lookup, no query of the
\* store and no similarity query.
C10_CoordinateRejectedAtBoundary ==
    \A w \in Workers :
        LET r == req[w]
        IN  (/\ r.pc = "done" /\ r.life = "ready"
             /\ ParametersValid(r.inp)
             /\ "db_failed" \notin r.log
             /\ ~ValidCoordinate(r.inp.latitude, r.inp.longitude))
              => (r.status = 422 /\ r.log \cap Lookups = {})

----------------------------------------------------------------------------
(* Concurrent requests: two ready workers with a Redis client, both        *)
(* servers up, the users table unchanged, and a master that pre-warms the  *)
(* same Redis while the workers serve (a second instance of the service    *)
(* started against it).  Nothing takes a lock; the steps of the two        *)
(* handlers and of the pre-warmer interleave at every call to Redis and    *)
(* PostgreSQL.                                                             *)

RaceRequests ==
    {Input(StoredUsers[i], 0, 0, DefaultSize, DefaultMaxDis, 0) : i \in 1..Len(StoredUsers)}

InitRace ==
    /\ redisUp = TRUE
    /\ dbUp = TRUE
    /\ cache = [k \in UserIds |-> NoEntry]
    /\ restaurants = StandardRestaurants
    /\ artifact = StandardArtifact
    /\ master = InitMaster
    /\ lifecycle = [w \in Workers |-> "ready"]
    /\ appModel = [w \in Workers |-> "loaded"]
    /\ redisClient = [w \in Workers |-> "client"]
    /\ req = [w \in Workers |-> IdleReq]

NextRace ==
    \/ MasterPing
    \/ MasterQuery
    \/ MasterBatch
    \/ \E w \in Workers, inp \in RaceRequests : Receive(w, inp)
    \/ \E w \in Workers : CacheGet(w)
    \/ \E w \in Workers : UsersQuery(w)
    \/ \E w \in Workers : CacheSet(w)
    \/ \E w \in Workers : Recommend(w)

SpecRace == InitRace /\ [][NextRace]_vars

\* the request of worker w missed and wrote the vector back
MissedAndWrote(w) ==
    /\ "cache_get" \in req[w].log
    /\ ~Truthy(req[w].cached)
    /\ "cache_set" \in req[w].log

\* C11: under every interleaving of the requests of the two workers and of
\* the pre-warmer's batches, whatever is stored under a user id is the
\* pickle of that user's vector in the store, with ex = 3600; a request that
\* wrote, wrote exactly that; two requests for one user that both missed
\* wrote the same value; a request that has its vector has the store's
\* vector and ends with the response that vector gives; and once a request
\* has written, the cache holds what a single request would have left.
C11_BenignPopulationRace ==
    /\ \A u \in UserIds : cache[u] \in {NoEntry, EntryOf(u)}
    /\ cache[UnknownUser] = NoEntry
    /\ \A w \in Workers :
          LET r == req[w]
              u == r.inp.user_id
          IN  /\ "cache_set" \in r.log
                    => (r.wrote = EntryOf(u) /\ cache[u] = EntryOf(u))
              /\ (r.pc = "kneighbors" \/ "kneighbors" \in r.log)
                    => r.features = Reshape1(FeatureRow(u))
              /\ r.pc = "done"
                    => (r.status = 200 /\ r.resp = ExpectedResponse(r.inp))
    /\ \A w1 \in Workers, w2 \in Workers :
          (/\ MissedAndWrote(w1) /\ MissedAndWrote(w2)
           /\ req[w1].inp.user_id = req[w2].inp.user_id)
             => req[w1].wrote = req[w2].wrote

\* both workers missed for the same user and both wrote, both ended with
\* 200, and the pre-warmer wrote its batches in between
C11_Witness ==
    /\ \A w \in Workers :
          MissedAndWrote(w) /\ req[w].pc = "done" /\ req[w].status = 200
    /\ \E w1 \in Workers, w2 \in Workers :
          w1 # w2 /\ req[w1].inp.user_id = req[w2].inp.user_id
    /\ master.outcome = "loaded"

====
